---- MODULE Spec2Model ----
(***************************************************************************)
(* Proximity-driven highlighting of the first-person room viewer          *)
(* (src/unnamed/part_002, lines 1-342): the registry `objects`, the       *)
(* asynchronous model loads that fill it, clearScene, and the frame        *)
(* callback animate = updateCamera ; checkObjectProximity.                 *)
(*                                                                         *)
(* Geometry.  Positions are THREE.Vector3 values with integer coordinates  *)
(* in world units; the y coordinate is measured from the camera's fixed    *)
(* height.  A distance is represented by its square: Math.sqrt is strictly *)
(* increasing, so `d < e` on distances is `d^2 < e^2` on the squares.      *)
(***************************************************************************)
EXTENDS Integers, Sequences, FiniteSets, Bags, TLC

\* ---- bounds of the model ------------------------------------------------
MaxLoads == 2      \* models created plus loads in flight
MaxCoord == 2      \* x coordinates range over 0..MaxCoord
MaxClicks == 2     \* /generate_scene calls made by the generate page
MaxSubmits == 2    \* /gemini_call calls made by the chat
MaxTimeouts == 2   \* pointer-lock garden: timeouts pending at once

\* ---- program constants --------------------------------------------------
null == 0                      \* `highlightedObject = null`; models are 1, 2, ...
Infinity == -1                 \* `closestDistance = Infinity` before any candidate
INTERACTION_DISTANCE == 2
cameraHeight == 0              \* camera.position.y is pinned to cameraHeight

\* The folder names loadObject is called with in the model: an interactive
\* type with a description, an interactive type without one, and a type
\* outside the allow-list.
Folders == {"telephone", "coffee_table", "couch"}

\* objectDescriptions: the keys of the table and (abbreviated) texts.
DescribedTypes ==
    {"gift_box_with_a_ribbons", "mirror", "modern_side_lamp_and_stand",
     "radio_broadcaster", "telephone"}

objectDescriptions(type) ==
    CASE type = "gift_box_with_a_ribbons"     -> "he was very friendly at first"
      [] type = "mirror"                      -> "there would have been no way"
      [] type = "modern_side_lamp_and_stand"  -> "Shaun started making remarks"
      [] type = "radio_broadcaster"           -> "I said once I wanted to go"
      [] type = "telephone"                   -> "He triangulated us a lot"
      [] OTHER                                -> "undefined"

\* The allow-list literal of checkObjectProximity.
InteractiveTypes ==
    {"gift_box_with_a_ribbons", "mirror", "modern_side_lamp_and_stand",
     "radio_broadcaster", "telephone", "coffee_table"}

\* Number of meshes in the glTF scene of a folder (content of the asset).
MeshCount(folder) == IF folder = "telephone" THEN 2 ELSE 1

Vec(x, y, z) == [x |-> x, y |-> y, z |-> z]

\* Placements loadObject is called with.
Placements == {Vec(x, 0, 0) : x \in 0..MaxCoord}

VARIABLES
    objects,            \* the registry: sequence of model ids, in push order
    models,             \* the models created so far, indexed by id
    scene,              \* ids of the models attached to the THREE.Scene
    pending,            \* loads in flight: bag of [folderName, position]
    camera,             \* camera.position
    highlightedObject,  \* id of the highlighted model, or null
    overlayHidden,      \* #object-overlay has class 'hidden'
    descriptionText,    \* #object-description textContent
    effects,            \* side effects applied by the last handler, in order
    threw,              \* the last handler ended with an uncaught exception
    leftOnce,           \* history: models whose highlight has been removed
    rafPending,         \* frame callbacks requested and not yet run
    requests,           \* generate page: /generate_scene calls in flight
    loading,            \* generate page: style.display of #loading
    fetchCount,         \* generate page: /generate_scene calls made so far
    lastArrived,        \* history: the call whose response was applied last
    promptValue,        \* generate page: the value of #promptInput
    messages,           \* chat: the children of #chat-messages, in order
    inputValue,         \* chat: the value of #chat-input
    chatRequests,       \* chat: /gemini_call calls in flight
    created,            \* chat: message elements created so far
    moveForward,        \* viewers: the movement flags set by the key handlers
    moveBackward,
    rotateLeft,
    rotateRight,
    held,               \* the keys that are physically down
    spheres,            \* garden: the spheres made by createSpheres
    highlightedSphere,  \* garden: index of the highlighted sphere, or null
    sphereOverlayHidden,    \* garden: #object-overlay has class 'hidden'
    sphereText,         \* garden: textContent of #object-description
    sphereEffects,      \* observation: side effects of the garden's last step
    isLocked,           \* pointer-lock garden: controls.isLocked
    lockRequested,      \* pointer-lock garden: a lock request is pending
    aim,                \* pointer-lock garden: spheres on the centre ray
    tooltipDisplay,     \* pointer-lock garden: style.display of #tooltip
    tooltipText,        \* pointer-lock garden: textContent of #tooltip
    emissiveIntensity,  \* pointer-lock garden: per sphere, in tenths
    timers,             \* pointer-lock garden: per sphere, timeouts pending
    lastOp              \* name of the last handler that ran

vars == <<objects, models, scene, pending, camera, highlightedObject,
          overlayHidden, descriptionText, effects, threw, leftOnce, rafPending,
          requests, loading, fetchCount, lastArrived, promptValue, messages,
          inputValue,
          chatRequests, created, moveForward, moveBackward, rotateLeft,
          rotateRight, held, spheres, highlightedSphere, sphereOverlayHidden,
          sphereText, sphereEffects, isLocked, lockRequested, aim,
          tooltipDisplay, tooltipText, emissiveIntensity, timers, lastOp>>

\* The state of each page that the handlers of the other pages never touch.
roomState == <<highlightedObject, overlayHidden, descriptionText, threw,
               leftOnce>>

keyState == <<moveForward, moveBackward, rotateLeft, rotateRight, held>>

proximityState == <<spheres, highlightedSphere, sphereOverlayHidden,
                    sphereText, sphereEffects>>

pointerState == <<isLocked, lockRequested, aim, tooltipDisplay, tooltipText,
                  emissiveIntensity, timers>>

gardenState == <<proximityState, pointerState>>

viewerState == <<roomState, keyState, gardenState>>

generateState == <<requests, loading, fetchCount, lastArrived, promptValue>>

chatState == <<messages, inputValue, chatRequests, created>>

Range(s) == {s[i] : i \in 1..Len(s)}

\* ---- pure functions -----------------------------------------------------

\* Vector3.distanceTo, as the square of the distance.
distanceTo(a, b) ==
    (a.x - b.x) * (a.x - b.x) + (a.y - b.y) * (a.y - b.y)
        + (a.z - b.z) * (a.z - b.z)

\* `distance < INTERACTION_DISTANCE`
InRangeInclusive(distance) ==
    distance <= INTERACTION_DISTANCE * INTERACTION_DISTANCE

InRange(distance) == distance < INTERACTION_DISTANCE * INTERACTION_DISTANCE

\* `distance < closestDistance`
CloserAlways(distance, closestDistance) == TRUE

CloserOrEqual(distance, closestDistance) ==
    closestDistance = Infinity \/ distance <= closestDistance

Closer(distance, closestDistance) ==
    closestDistance = Infinity \/ distance < closestDistance

\* The predicate of `objects.filter(...)`: the type tag is in the allow-list.
IsInteractiveAny(type) == TRUE

IsInteractive(type) == type \in InteractiveTypes

\* The material of mesh number m as the loader delivers it.
AssetMaterial(m) == [base |-> m, emissive |-> "asset"]

\* createHighlightMaterial: a clone with the emissive colour set.
createHighlightMaterial(originalMaterial) ==
    [originalMaterial EXCEPT !.emissive = "0x666666"]

\* A model as the loadObject of the orbit viewers leaves it: no userData.
NewModelUntagged(folderName, position) ==
    LET n == MeshCount(folderName) IN
    [ type              |-> "",
      position          |-> Vec(position.x, position.y, position.z),
      material          |-> [m \in 1..n |-> AssetMaterial(m)],
      originalMaterial  |-> <<>>,
      originalMaterials |-> <<>> ]

\* The model built by the success callback of loader.load before it is
\* added to the scene and pushed: position (the asset rests on its origin,
\* so box.min.y is 0), type tag, original materials.
NewModel(folderName, position) ==
    LET n == MeshCount(folderName) IN
    [ type              |-> folderName,
      position          |-> Vec(position.x, position.y, position.z),
      material          |-> [m \in 1..n |-> AssetMaterial(m)],
      originalMaterial  |-> [m \in 1..n |-> AssetMaterial(m)],
      originalMaterials |-> [m \in 1..n |->
                                [mesh |-> m, material |-> AssetMaterial(m)]] ]

\* The slot of a model that is garbage: clearScene dropped it from `objects`
\* and the scene, and highlightedObject does not refer to it.  Ids are never
\* reused.
Freed ==
    [ type |-> "", position |-> Vec(0, 0, 0), material |-> <<>>,
      originalMaterial |-> <<>>, originalMaterials |-> <<>> ]

Live(ms) == {o \in 1..Len(ms) : ms[o] # Freed}

\* The models once those that nothing refers to any more are collected.
\* A model that still carries a material other than its recorded ones is
\* kept, so that its appearance stays observable.
collect(ms, objs, hl) ==
    [o \in 1..Len(ms) |->
        IF /\ o \notin Range(objs)
           /\ o # hl
           /\ ms[o].material = ms[o].originalMaterial
        THEN Freed ELSE ms[o]]

\* interactiveObjects = objects.filter(obj => [...].includes(obj.userData.type))
interactiveObjects(objs, ms) ==
    SelectSeq(objs, LAMBDA o : IsInteractive(ms[o].type))

\* The forEach loop over interactiveObjects, from index i on, carrying
\* closestObject and closestDistance.
RECURSIVE closestScan(_, _, _, _, _, _)
closestScan(io, i, ms, cam, closestObject, closestDistance) ==
    IF i > Len(io) THEN closestObject
    ELSE LET obj == io[i]
             distance == distanceTo(cam, ms[obj].position)
         IN  IF InRange(distance) /\ Closer(distance, closestDistance)
             THEN closestScan(io, i + 1, ms, cam, obj, distance)
             ELSE closestScan(io, i + 1, ms, cam, closestObject, closestDistance)

closestObjectOf(objs, ms, cam) ==
    closestScan(interactiveObjects(objs, ms), 1, ms, cam, null, Infinity)

\* objectDescriptions[closestObject.userData.type]: a property read, which
\* yields undefined for a missing key and does not throw.
lookupDescriptionStrict(type) ==
    [threw |-> type \notin DescribedTypes, value |-> objectDescriptions(type)]

lookupDescription(type) ==
    [threw |-> FALSE, value |-> objectDescriptions(type)]

\* The textContent setter (DOMString?): undefined and null become "".
setTextContent(value) == IF value = "undefined" THEN "" ELSE value

Effect(op, obj) == [op |-> op, obj |-> obj]

\* "Remove highlight from previous object": every recorded mesh gets its
\* recorded material back.
restoreNothing(ms, o) == ms

restoreFirstMeshOnly(ms, o) ==
    [ms EXCEPT ![o].material =
        [m \in DOMAIN ms[o].material |->
            IF m = 1 THEN ms[o].originalMaterials[m].material
            ELSE ms[o].material[m]]]

restoreMaterials(ms, o) ==
    [ms EXCEPT ![o].material =
        [m \in DOMAIN ms[o].material |-> ms[o].originalMaterials[m].material]]

\* "Add highlight to new object": traverse the meshes.
highlightMaterials(ms, o) ==
    [ms EXCEPT ![o].material =
        [m \in DOMAIN ms[o].material |->
            createHighlightMaterial(ms[o].originalMaterial[m])]]

\* document.getElementById('object-overlay').classList.add('hidden')
hideOverlaySkipped(hidden) == hidden

hideOverlay(hidden) == TRUE

\* `closestObject !== highlightedObject`
focusChangedAlways(closestObject, hl) == TRUE

focusChanged(closestObject, hl) == closestObject # hl

\* `highlightedObject = closestObject`: the value stored at the end of a
\* focus change.
assignHighlightedSticky(closestObject, hl) ==
    IF closestObject = null THEN hl ELSE closestObject

assignHighlighted(closestObject, hl) == closestObject

\* checkObjectProximity, as a function from the state it reads to the state
\* it writes.  An exception in the enter branch ends the function there.
checkObjectProximity(objs, ms, cam, hl, hidden, text) ==
    LET closestObject == closestObjectOf(objs, ms, cam)
        unchanged == [models |-> ms, highlightedObject |-> hl,
                      overlayHidden |-> hidden, descriptionText |-> text,
                      effects |-> <<>>, threw |-> FALSE]
    IN
    IF ~focusChanged(closestObject, hl) THEN unchanged
    ELSE
      LET leaving  == hl # null
          ms1      == IF leaving THEN restoreMaterials(ms, hl) ELSE ms
          hidden1  == IF leaving THEN hideOverlay(hidden) ELSE hidden
          eff1     == IF leaving
                      THEN <<Effect("restore", hl), Effect("hide", hl)>>
                      ELSE <<>>
      IN
      IF closestObject = null
      THEN [models |-> ms1,
            highlightedObject |-> assignHighlighted(closestObject, hl),
            overlayHidden |-> hidden1, descriptionText |-> text,
            effects |-> eff1, threw |-> FALSE]
      ELSE
        LET ms2  == highlightMaterials(ms1, closestObject)
            eff2 == Append(eff1, Effect("highlight", closestObject))
            d    == lookupDescription(ms[closestObject].type)
        IN
        IF d.threw
        THEN [models |-> ms2, highlightedObject |-> hl,
              overlayHidden |-> hidden1, descriptionText |-> text,
              effects |-> eff2, threw |-> TRUE]
        ELSE [models |-> ms2,
              highlightedObject |-> assignHighlighted(closestObject, hl),
              overlayHidden |-> FALSE,
              descriptionText |-> setTextContent(d.value),
              effects |-> eff2 \o <<Effect("text", closestObject),
                                    Effect("show", closestObject)>>,
              threw |-> FALSE]

\* updateCamera: the camera moves along its heading by the step the held
\* keys ask for (dx, one grid step backward, none, or forward) and its
\* height is pinned to cameraHeight.
Clamp(x) == IF x < 0 THEN 0 ELSE IF x > MaxCoord THEN MaxCoord ELSE x

updateCamera(cam, dx) == Vec(Clamp(cam.x + dx), cameraHeight, cam.z)

\* requestAnimationFrame(animate), on the number q of pending callbacks.
requestAnimationFrameTwice(q) == q + 2

requestAnimationFrameDropped(q) == q

requestAnimationFrame(q) == q + 1

\* The class list of #object-overlay in the page: it carries 'hidden'.
overlayInitiallyHidden == TRUE

\* The display of #loading before any click, from the page's style sheet.
loadingInitially == "none"

\* The flags as declared, with no key down.
KeysIdle ==
    /\ moveForward = FALSE
    /\ moveBackward = FALSE
    /\ rotateLeft = FALSE
    /\ rotateRight = FALSE
    /\ held = {}

\* The garden before createSpheres: no sphere, nothing highlighted.
ProximityIdle ==
    /\ spheres = <<>>
    /\ highlightedSphere = null
    /\ sphereOverlayHidden = overlayInitiallyHidden
    /\ sphereText = ""
    /\ sphereEffects = <<>>

\* The number of entries of stories.json in the model.
NumStories == 2

\* The spheres of the pointer-lock garden, by index in stories.
Stories == 1..NumStories

\* emissiveIntensity of the sphere material, in tenths: 0.2 as created,
\* 0.8 after a click on it.
normalIntensity == 2

raisedIntensity == 8

\* The display of #tooltip before any click, from the page's style sheet.
tooltipInitially == "none"

\* The pointer-lock garden after init: unlocked, every sphere as created.
PointerIdle ==
    /\ isLocked = FALSE
    /\ lockRequested = FALSE
    /\ aim = <<>>
    /\ tooltipDisplay = tooltipInitially
    /\ tooltipText = ""
    /\ emissiveIntensity = [s \in Stories |-> normalIntensity]
    /\ timers = [s \in Stories |-> 0]

GardenIdle == ProximityIdle /\ PointerIdle

\* The viewers' state outside the room, as declared.
ViewersIdle == KeysIdle /\ GardenIdle

\* The generate page before any click: nothing in flight.
GenerateIdle ==
    /\ requests = {}
    /\ loading = loadingInitially
    /\ fetchCount = 0
    /\ lastArrived = null
    /\ promptValue = ""

\* The chat before any submit: no message, an empty input.
ChatIdle ==
    /\ messages = <<>>
    /\ inputValue = ""
    /\ chatRequests = {}
    /\ created = 0

\* ---- the state machine --------------------------------------------------

\* The module-level declarations, initScene and the first call of animate,
\* which requests the first frame.
Init ==
    /\ objects = <<>>
    /\ models = <<>>
    /\ scene = {}
    /\ pending = EmptyBag
    /\ camera = Vec(0, cameraHeight, 0)
    /\ highlightedObject = null
    /\ overlayHidden = overlayInitiallyHidden
    /\ descriptionText = ""
    /\ effects = <<>>
    /\ threw = FALSE
    /\ leftOnce = {}
    /\ rafPending = requestAnimationFrame(0)
    /\ lastOp = "init"
    /\ GenerateIdle
    /\ ChatIdle
    /\ ViewersIdle

\* loadObject(folderName, position): starts an asynchronous load.
LoadObject(folderName, position) ==
    /\ Len(models) + BagCardinality(pending) < MaxLoads
    /\ pending' = pending (+)
           SetToBag({[folderName |-> folderName, position |-> position]})
    /\ effects' = <<>>
    /\ threw' = FALSE
    /\ lastOp' = "loadObject"
    /\ UNCHANGED <<generateState, chatState, keyState, gardenState>>
    /\ UNCHANGED <<objects, models, scene, camera, highlightedObject,
                   overlayHidden, descriptionText, leftOnce, rafPending>>

\* The success callback of loader.load for a load in flight.
OnLoad(load) ==
    /\ BagIn(load, pending)
    /\ LET model == NewModel(load.folderName, load.position)
           id    == Len(models) + 1
       IN  /\ models' = Append(models, model)
           /\ scene' = scene \cup {id}
           /\ objects' = Append(objects, id)
    /\ pending' = pending (-) SetToBag({load})
    /\ effects' = <<>>
    /\ threw' = FALSE
    /\ lastOp' = "onLoad"
    /\ UNCHANGED <<generateState, chatState, keyState, gardenState>>
    /\ UNCHANGED <<camera, highlightedObject, overlayHidden,
                   descriptionText, leftOnce, rafPending>>

\* The error callback of loader.load: console.error only.
OnErrorRegisters(load) ==
    /\ BagIn(load, pending)
    /\ models' = Append(models, NewModel(load.folderName, load.position))
    /\ scene' = scene \cup {Len(models) + 1}
    /\ objects' = Append(objects, Len(models) + 1)
    /\ pending' = pending (-) SetToBag({load})
    /\ effects' = <<>>
    /\ threw' = FALSE
    /\ lastOp' = "onError"
    /\ UNCHANGED <<generateState, chatState, keyState, gardenState>>
    /\ UNCHANGED <<camera, highlightedObject, overlayHidden,
                   descriptionText, leftOnce, rafPending>>

OnError(load) ==
    /\ BagIn(load, pending)
    /\ pending' = pending (-) SetToBag({load})
    /\ effects' = <<>>
    /\ threw' = FALSE
    /\ lastOp' = "onError"
    /\ UNCHANGED <<generateState, chatState, keyState, gardenState>>
    /\ UNCHANGED <<objects, models, scene, camera, highlightedObject,
                   overlayHidden, descriptionText, leftOnce, rafPending>>

\* clearScene(): detach every registered model, then objects = [].
ClearScene ==
    /\ scene' = scene \ Range(objects)
    /\ objects' = <<>>
    /\ effects' = <<>>
    /\ threw' = FALSE
    /\ lastOp' = "clearScene"
    /\ UNCHANGED <<generateState, chatState, keyState, gardenState>>
    /\ models' = collect(models, objects', highlightedObject)
    /\ leftOnce' = leftOnce \cap Live(models')
    /\ UNCHANGED <<pending, camera, highlightedObject,
                   overlayHidden, descriptionText, rafPending>>

\* animate(), run as a frame callback: requestAnimationFrame(animate);
\* updateCamera(); checkObjectProximity(); render.
Animate(dx) ==
    /\ rafPending > 0
    /\ rafPending' = requestAnimationFrame(rafPending - 1)
    /\ camera' = updateCamera(camera, dx)
    /\ \E r \in {checkObjectProximity(objects, models, camera', highlightedObject,
                                       overlayHidden, descriptionText)} :
           /\ models' = collect(r.models, objects, r.highlightedObject)
           /\ highlightedObject' = r.highlightedObject
           /\ overlayHidden' = r.overlayHidden
           /\ descriptionText' = r.descriptionText
           /\ effects' = r.effects
           /\ threw' = r.threw
           /\ leftOnce' = Live(models') \cap (leftOnce \cup
                  {o \in Live(models) : Effect("restore", o) \in Range(r.effects)})
    /\ lastOp' = "animate"
    /\ UNCHANGED <<generateState, chatState, keyState, gardenState>>
    /\ UNCHANGED <<objects, scene, pending>>

Next ==
    \/ \E f \in Folders, p \in Placements : LoadObject(f, p)
    \/ \E load \in BagToSet(pending) : OnLoad(load)
    \/ \E load \in BagToSet(pending) : OnError(load)
    \/ ClearScene
    \/ \E dx \in {-1, 0, 1} : Animate(dx)

Spec == Init /\ [][Next]_vars

TypeOK ==
    /\ Range(objects) \subseteq 1..Len(models)
    /\ scene \subseteq 1..Len(models)
    /\ highlightedObject \in 0..Len(models)
    /\ IsABag(pending)
    /\ Len(models) + BagCardinality(pending) <= MaxLoads
    /\ Range(objects) \cup scene \cup leftOnce \subseteq Live(models)
    /\ highlightedObject \in Live(models) \cup {null}
    /\ overlayHidden \in BOOLEAN
    /\ threw \in BOOLEAN
    /\ rafPending \in Nat

\* ---- the key handlers (onKeyDown / onKeyUp) -----------------------------

\* event.code of the keys in the model: the eight bound keys and one that
\* no case of the switch names.
KeyCodes ==
    {"ArrowUp", "KeyW", "ArrowDown", "KeyS", "ArrowLeft", "KeyA",
     "ArrowRight", "KeyD", "Space"}

\* The switch of onKeyDown (value = TRUE) and of onKeyUp (value = FALSE) on
\* the record of the four flags.
keySwitch(flags, code, value) ==
    CASE code \in {"ArrowUp", "KeyW"}      -> [flags EXCEPT !.moveForward = value]
      [] code \in {"ArrowDown", "KeyS"}    -> [flags EXCEPT !.moveBackward = value]
      [] code \in {"ArrowLeft", "KeyA"}    -> [flags EXCEPT !.rotateLeft = value]
      [] code \in {"ArrowRight", "KeyD"}   -> [flags EXCEPT !.rotateRight = value]
      [] OTHER                             -> flags

onKeyDown(flags, code) == keySwitch(flags, code, TRUE)

onKeyUp(flags, code) == keySwitch(flags, code, FALSE)

Flags ==
    [ moveForward |-> moveForward, moveBackward |-> moveBackward,
      rotateLeft |-> rotateLeft, rotateRight |-> rotateRight ]

\* A key goes down: the keydown listener runs.
KeyDown(code) ==
    /\ code \notin held
    /\ held' = held \cup {code}
    /\ \E f \in {onKeyDown(Flags, code)} :
           /\ moveForward' = f.moveForward
           /\ moveBackward' = f.moveBackward
           /\ rotateLeft' = f.rotateLeft
           /\ rotateRight' = f.rotateRight
    /\ lastOp' = "keydown"
    /\ UNCHANGED <<objects, models, scene, pending, camera, rafPending,
                   effects, roomState, generateState, chatState, gardenState>>

\* A key that is down is released: the keyup listener runs.
KeyUp(code) ==
    /\ code \in held
    /\ held' = held \ {code}
    /\ \E f \in {onKeyUp(Flags, code)} :
           /\ moveForward' = f.moveForward
           /\ moveBackward' = f.moveBackward
           /\ rotateLeft' = f.rotateLeft
           /\ rotateRight' = f.rotateRight
    /\ lastOp' = "keyup"
    /\ UNCHANGED <<objects, models, scene, pending, camera, rafPending,
                   effects, roomState, generateState, chatState, gardenState>>

NextKeys ==
    \/ \E code \in KeyCodes : KeyDown(code)
    \/ \E code \in KeyCodes : KeyUp(code)

SpecKeys == Init /\ [][NextKeys]_vars

\* ---- the garden (src/unnamed/part_004) beside the room -------------------

\* The material createSpheres gives every sphere, and the highlighted clone
\* of it made by checkProximity (emissive 0x666666, intensity 0.5).
sphereMaterial == [base |-> "flowers", emissive |-> "none"]

sphereHighlightMaterial(originalMaterial) ==
    [originalMaterial EXCEPT !.emissive = "0x666666"]

\* The sphere createSpheres makes for story number index.
NewSphere(index, position) ==
    [ position         |-> Vec(position.x, position.y, position.z),
      material         |-> sphereMaterial,
      content          |-> <<"story", index>>,
      index            |-> index,
      originalMaterial |-> sphereMaterial,
      type             |-> "story_sphere" ]

\* `distance < INTERACTION_DISTANCE && distance < closestDistance`
sphereCloserInclusive(distance, closestDistance) ==
    /\ distance <= INTERACTION_DISTANCE * INTERACTION_DISTANCE
    /\ (closestDistance = Infinity \/ distance < closestDistance)

sphereCloser(distance, closestDistance) ==
    /\ distance < INTERACTION_DISTANCE * INTERACTION_DISTANCE
    /\ (closestDistance = Infinity \/ distance < closestDistance)

\* The forEach loop over spheres, from index i on.
RECURSIVE sphereScan(_, _, _, _, _)
sphereScan(sphs, i, cam, closestSphere, closestDistance) ==
    IF i > Len(sphs) THEN closestSphere
    ELSE LET distance == distanceTo(cam, sphs[i].position)
         IN  IF sphereCloser(distance, closestDistance)
             THEN sphereScan(sphs, i + 1, cam, i, distance)
             ELSE sphereScan(sphs, i + 1, cam, closestSphere, closestDistance)

\* checkProximity, as a function from the state it reads to the state it
\* writes.
checkProximity(sphs, cam, hl, hidden, text) ==
    LET closestSphere == sphereScan(sphs, 1, cam, null, Infinity) IN
    IF closestSphere = hl
    THEN [spheres |-> sphs, highlightedSphere |-> hl,
          overlayHidden |-> hidden, text |-> text, effects |-> <<>>]
    ELSE
      LET sphs1   == IF hl # null
                     THEN [sphs EXCEPT ![hl].material = sphs[hl].originalMaterial]
                     ELSE sphs
          hidden1 == IF hl # null THEN TRUE ELSE hidden
          eff1    == IF hl # null
                     THEN <<Effect("restore", hl), Effect("hide", hl)>>
                     ELSE <<>>
      IN
      IF closestSphere = null
      THEN [spheres |-> sphs1, highlightedSphere |-> closestSphere,
            overlayHidden |-> hidden1, text |-> text, effects |-> eff1]
      ELSE [spheres |->
                [sphs1 EXCEPT ![closestSphere].material =
                    sphereHighlightMaterial(sphs1[closestSphere].originalMaterial)],
            highlightedSphere |-> closestSphere,
            overlayHidden |-> FALSE,
            text |-> sphs[closestSphere].content,
            effects |-> eff1 \o <<Effect("highlight", closestSphere),
                                  Effect("text", closestSphere),
                                  Effect("show", closestSphere)>>]

\* The folders of the room whose type tag is on the allow-list.
InteractiveFolders == {f \in Folders : IsInteractive(f)}

\* The room and the garden built over the same positions: the room holds
\* one interactive model per position, registered in order, the garden one
\* sphere per position, and both cameras start at the same place.
InitBoth ==
    /\ \E n \in 1..MaxLoads :
         \E positions \in [1..n -> Placements],
            folders \in [1..n -> InteractiveFolders] :
              /\ models = [i \in 1..n |-> NewModel(folders[i], positions[i])]
              /\ objects = [i \in 1..n |-> i]
              /\ scene = 1..n
              /\ spheres = [i \in 1..n |-> NewSphere(i, positions[i])]
    /\ pending = EmptyBag
    /\ camera = Vec(0, cameraHeight, 0)
    /\ highlightedObject = null
    /\ overlayHidden = overlayInitiallyHidden
    /\ descriptionText = ""
    /\ effects = <<>>
    /\ threw = FALSE
    /\ leftOnce = {}
    /\ rafPending = requestAnimationFrame(0)
    /\ lastOp = "init"
    /\ highlightedSphere = null
    /\ sphereOverlayHidden = overlayInitiallyHidden
    /\ sphereText = ""
    /\ sphereEffects = <<>>
    /\ GenerateIdle
    /\ ChatIdle
    /\ KeysIdle
    /\ PointerIdle

\* One frame of each page over the same camera move: animate of the room
\* (updateCamera, checkObjectProximity) and animate of the garden
\* (updateCamera, checkProximity).
AnimateBoth(dx) ==
    /\ rafPending > 0
    /\ rafPending' = requestAnimationFrame(rafPending - 1)
    /\ camera' = updateCamera(camera, dx)
    /\ \E r \in {checkObjectProximity(objects, models, camera', highlightedObject,
                                       overlayHidden, descriptionText)} :
           /\ models' = r.models
           /\ highlightedObject' = r.highlightedObject
           /\ overlayHidden' = r.overlayHidden
           /\ descriptionText' = r.descriptionText
           /\ effects' = r.effects
           /\ threw' = r.threw
           /\ leftOnce' = leftOnce \cup
                  {o \in Range(objects) : Effect("restore", o) \in Range(r.effects)}
    /\ \E g \in {checkProximity(spheres, camera', highlightedSphere,
                                sphereOverlayHidden, sphereText)} :
           /\ spheres' = g.spheres
           /\ highlightedSphere' = g.highlightedSphere
           /\ sphereOverlayHidden' = g.overlayHidden
           /\ sphereText' = g.text
           /\ sphereEffects' = g.effects
    /\ lastOp' = "animate"
    /\ UNCHANGED <<objects, scene, pending, generateState, chatState, keyState,
                   pointerState>>

NextBoth == \E dx \in {-1, 0, 1} : AnimateBoth(dx)

SpecBoth == InitBoth /\ [][NextBoth]_vars

\* ---- the pointer-lock garden (src/frontend/garden/main.js) ---------------

\* sphere.userData.content of the sphere made for story s.
content(s) == <<"story", s>>

\* What raycaster.intersectObjects(spheres) can return: the spheres on the
\* ray, nearest first, each at most once.
HitLists ==
    {hits \in UNION {[1..n -> Stories] : n \in 0..NumStories} :
        \A i, j \in DOMAIN hits : i # j => hits[i] # hits[j]}

\* intersects[0].object
lastHit(intersects) == intersects[Len(intersects)]

firstHit(intersects) == intersects[1]

TimeoutsPending == LET RECURSIVE Sum(_)
                       Sum(s) == IF s = 0 THEN 0 ELSE timers[s] + Sum(s - 1)
                   IN  Sum(NumStories)

OutsidePointer ==
    <<objects, models, scene, pending, camera, rafPending, effects, roomState,
      keyState, proximityState, generateState, chatState>>

InitPointer ==
    /\ objects = <<>>
    /\ models = <<>>
    /\ scene = {}
    /\ pending = EmptyBag
    /\ camera = Vec(0, 2, 0)
    /\ highlightedObject = null
    /\ overlayHidden = overlayInitiallyHidden
    /\ descriptionText = ""
    /\ effects = <<>>
    /\ threw = FALSE
    /\ leftOnce = {}
    /\ rafPending = requestAnimationFrame(0)
    /\ lastOp = "init"
    /\ GenerateIdle
    /\ ChatIdle
    /\ ViewersIdle

\* The camera turns or moves: other spheres come under the screen centre.
Look(hits) ==
    /\ hits # aim
    /\ aim' = hits
    /\ lastOp' = "look"
    /\ UNCHANGED <<isLocked, lockRequested, tooltipDisplay, tooltipText,
                   emissiveIntensity, timers, OutsidePointer>>

\* A click: the listener on document (lock when not locked), then the
\* listener on window (return when not locked, else raycast and tooltip).
\* controls.lock() only requests the lock: isLocked changes later, on the
\* pointerlockchange event.
Click ==
    /\ IF ~isLocked
       THEN /\ lockRequested' = TRUE
            /\ UNCHANGED <<tooltipDisplay, tooltipText, emissiveIntensity,
                           timers>>
       ELSE /\ UNCHANGED lockRequested
            /\ IF Len(aim) > 0
               THEN \E sphere \in {firstHit(aim)} :
                      /\ TimeoutsPending < MaxTimeouts
                      /\ tooltipDisplay' = "block"
                      /\ tooltipText' = content(sphere)
                      /\ emissiveIntensity' =
                             [emissiveIntensity EXCEPT ![sphere] = raisedIntensity]
                      /\ timers' = [timers EXCEPT ![sphere] = @ + 1]
               ELSE /\ tooltipDisplay' = "none"
                    /\ UNCHANGED <<tooltipText, emissiveIntensity, timers>>
    /\ lastOp' = "click"
    /\ UNCHANGED <<isLocked, aim, OutsidePointer>>

\* The browser answers the lock request (granted or not), or the user
\* leaves the lock with Escape.
PointerLockChange(granted) ==
    /\ lockRequested
    /\ lockRequested' = FALSE
    /\ isLocked' = (isLocked \/ granted)
    /\ lastOp' = "pointerlockchange"
    /\ UNCHANGED <<aim, tooltipDisplay, tooltipText, emissiveIntensity, timers,
                   OutsidePointer>>

Unlock ==
    /\ isLocked
    /\ isLocked' = FALSE
    /\ lastOp' = "unlock"
    /\ UNCHANGED <<lockRequested, aim, tooltipDisplay, tooltipText,
                   emissiveIntensity, timers, OutsidePointer>>

\* The callback of setTimeout(..., 1000) for a click on sphere.
Timeout(sphere) ==
    /\ timers[sphere] > 0
    /\ timers' = [timers EXCEPT ![sphere] = @ - 1]
    /\ emissiveIntensity' = [emissiveIntensity EXCEPT ![sphere] = normalIntensity]
    /\ lastOp' = "timeout"
    /\ UNCHANGED <<isLocked, lockRequested, aim, tooltipDisplay, tooltipText,
                   OutsidePointer>>

NextPointer ==
    \/ \E hits \in HitLists : Look(hits)
    \/ Click
    \/ \E granted \in BOOLEAN : PointerLockChange(granted)
    \/ Unlock
    \/ \E sphere \in Stories : Timeout(sphere)

\* Every timeout that was set eventually runs its callback.
SpecPointerLive ==
    InitPointer /\ [][NextPointer]_vars
        /\ \A sphere \in Stories : WF_vars(Timeout(sphere))

\* ---- the generate page (src/frontend/main.js) ---------------------------

\* Values of #promptInput in the model: empty, blank, and a description.
Prompts == {"", " ", "a chair"}

\* String.prototype.trim on the values of the model.
trimNothing(value) == value

trim(value) == IF value = " " THEN "" ELSE value

\* clearScene(): scene.remove of every registered object, then objects = [].
clearSceneKeepsAttached(objs, sc) == [objects |-> <<>>, scene |-> sc]

clearScene(objs, sc) == [objects |-> <<>>, scene |-> sc \ Range(objs)]

\* The model the success callback of loadObject(glbUrl, position) places:
\* scaled to unit size and centred on the position.
GltfModel(glbUrl, position) ==
    [ url      |-> glbUrl,
      position |-> Vec(position.x, position.y, position.z) ]

\* adjustCamera(model): the camera is put above and behind the centre of
\* the model (offsets in whole units).
adjustCamera(model) ==
    Vec(model.position.x, model.position.y + 1, model.position.z + 2)

\* The generate page after initScene and the first call of animate.
InitGen ==
    /\ objects = <<>>
    /\ models = <<>>
    /\ scene = {}
    /\ pending = EmptyBag
    /\ camera = Vec(0, 5, 10)
    /\ rafPending = requestAnimationFrame(0)
    /\ effects = <<>>
    /\ lastOp = "init"
    /\ GenerateIdle
    /\ ChatIdle
    /\ ViewersIdle
    /\ highlightedObject = null
    /\ overlayHidden = overlayInitiallyHidden
    /\ descriptionText = ""
    /\ threw = FALSE
    /\ leftOnce = {}

\* The user edits #promptInput.
TypePrompt(value) ==
    /\ value # promptValue
    /\ promptValue' = value
    /\ effects' = <<>>
    /\ lastOp' = "prompt"
    /\ UNCHANGED <<objects, models, scene, pending, camera, rafPending,
                   requests, loading, fetchCount, lastArrived, viewerState,
                   chatState>>

\* The click handler of #generateBtn up to its first await: an empty prompt
\* is refused with an alert, otherwise the indicator is shown and the call
\* is sent.
GenerateClick(value) ==
    /\ LET prompt == trim(value) IN
       IF prompt = ""
       THEN /\ effects' = <<Effect("alert", null)>>
            /\ lastOp' = "generateRefused"
            /\ UNCHANGED <<requests, loading, fetchCount>>
       ELSE /\ fetchCount < MaxClicks
            /\ fetchCount' = fetchCount + 1
            /\ loading' = "block"
            /\ requests' = requests \cup
                   {[id |-> fetchCount + 1, prompt |-> prompt, stage |-> "fetch"]}
            /\ effects' = <<>>
            /\ lastOp' = "generateClick"
    /\ UNCHANGED <<objects, models, scene, pending, camera, rafPending,
                   lastArrived, viewerState, chatState, promptValue>>

\* The await of fetch rejects: catch alerts, finally hides the indicator.
FetchRejectedRetries(req) ==
    /\ req \in requests
    /\ req.stage = "fetch"
    /\ requests' = requests
    /\ effects' = <<Effect("alert", null)>>
    /\ loading' = "none"
    /\ lastOp' = "generateFailed"
    /\ UNCHANGED <<objects, models, scene, pending, camera, rafPending,
                   fetchCount, lastArrived, viewerState, chatState, promptValue>>

FetchRejected(req) ==
    /\ req \in requests
    /\ req.stage = "fetch"
    /\ requests' = requests \ {req}
    /\ effects' = <<Effect("alert", null)>>
    /\ loading' = "none"
    /\ lastOp' = "generateFailed"
    /\ UNCHANGED <<objects, models, scene, pending, camera, rafPending,
                   fetchCount, lastArrived, viewerState, chatState, promptValue>>

\* The await of fetch resolves with a response, ok or not: either way the
\* handler next awaits response.json().
FetchResolved(req, ok) ==
    /\ req \in requests
    /\ req.stage = "fetch"
    /\ requests' = (requests \ {req}) \cup
           {[req EXCEPT !.stage = IF ok THEN "json" ELSE "errorJson"]}
    /\ effects' = <<>>
    /\ lastOp' = "fetchResolved"
    /\ UNCHANGED <<objects, models, scene, pending, camera, rafPending,
                   loading, fetchCount, lastArrived, viewerState, chatState, promptValue>>

\* The await of response.json() settles.  For a response that is ok and
\* parses: clearScene(), loadObject(absoluteURL, {0, 0, 0}).  Otherwise the
\* handler throws (or the await rejects) and catch alerts.  finally hides
\* the indicator.
JsonSettled(req, parsed) ==
    /\ req \in requests
    /\ req.stage \in {"json", "errorJson"}
    /\ requests' = requests \ {req}
    /\ loading' = "none"
    /\ IF req.stage = "json" /\ parsed
       THEN /\ \E r \in {clearScene(objects, scene)} :
                 /\ objects' = r.objects
                 /\ scene' = r.scene
            /\ pending' = pending (+)
                   SetToBag({[glbUrl |-> req.id, position |-> Vec(0, 0, 0)]})
            /\ lastArrived' = req.id
            /\ effects' = <<>>
            /\ lastOp' = "generateSucceeded"
       ELSE /\ effects' = <<Effect("alert", null)>>
            /\ lastOp' = "generateFailed"
            /\ UNCHANGED <<objects, scene, pending, lastArrived>>
    /\ UNCHANGED <<models, camera, rafPending, fetchCount, viewerState,
                   chatState, promptValue>>

\* The success callback of loader.load: scene.add, objects.push,
\* adjustCamera.
LoadCompleted(load) ==
    /\ BagIn(load, pending)
    /\ LET model == GltfModel(load.glbUrl, load.position)
           id    == Len(models) + 1
       IN  /\ models' = Append(models, model)
           /\ scene' = scene \cup {id}
           /\ objects' = Append(objects, id)
           /\ camera' = adjustCamera(model)
    /\ pending' = pending (-) SetToBag({load})
    /\ effects' = <<>>
    /\ lastOp' = "onLoad"
    /\ UNCHANGED <<rafPending, generateState, viewerState, chatState>>

\* The error callback of loader.load: console.error and an alert.
LoadFailed(load) ==
    /\ BagIn(load, pending)
    /\ pending' = pending (-) SetToBag({load})
    /\ effects' = <<Effect("alert", null)>>
    /\ lastOp' = "onError"
    /\ UNCHANGED <<objects, models, scene, camera, rafPending, generateState,
                   viewerState, chatState>>

\* animate() of the generate page, run as a frame callback:
\* requestAnimationFrame(animate); controls.update(); render.
Render ==
    /\ rafPending > 0
    /\ rafPending' = requestAnimationFrame(rafPending - 1)
    /\ effects' = <<>>
    /\ lastOp' = "animate"
    /\ UNCHANGED <<objects, models, scene, pending, camera, generateState,
                   viewerState, chatState>>

NextGen ==
    \/ \E value \in Prompts : TypePrompt(value)
    \/ GenerateClick(promptValue)
    \/ \E req \in requests : FetchRejected(req)
    \/ \E req \in requests, ok \in BOOLEAN : FetchResolved(req, ok)
    \/ \E req \in requests, parsed \in BOOLEAN : JsonSettled(req, parsed)
    \/ \E load \in BagToSet(pending) : LoadCompleted(load)
    \/ \E load \in BagToSet(pending) : LoadFailed(load)
    \/ Render

SpecGen == InitGen /\ [][NextGen]_vars

\* The browser runs every frame callback that has been requested.
SpecGenLive == InitGen /\ [][NextGen]_vars /\ WF_vars(Render)

\* ---- the chat (src/frontend/chat.js) -----------------------------------

\* Values of #chat-input in the model: empty, blank, and a question.
ChatInputs == {"", " ", "hi"}

ThinkingText == "Thinking..."

ErrorText == "Sorry, I encountered an error. Please try again."

\* addMessageToChat(message, type): appends a new element el to
\* #chat-messages and returns it.
addMessageToChat(msgs, el, message, type) ==
    Append(msgs, [el |-> el, text |-> message, type |-> type])

\* loadingMessage.remove()
remove(msgs, el) == SelectSeq(msgs, LAMBDA e : e.el # el)

\* The catch block of the submit handler.
catchSilently(msgs, el) == msgs

catch(msgs, el) == addMessageToChat(msgs, el, ErrorText, "bot")

\* The calls made so far: one user message is added per call.
Submitted(msgs) == Len(SelectSeq(msgs, LAMBDA e : e.type = "user"))

\* The page with the chat before any submit; the scene is left as built.
InitChat ==
    /\ objects = <<>>
    /\ models = <<>>
    /\ scene = {}
    /\ pending = EmptyBag
    /\ camera = Vec(0, 5, 10)
    /\ rafPending = requestAnimationFrame(0)
    /\ effects = <<>>
    /\ lastOp = "init"
    /\ GenerateIdle
    /\ ChatIdle
    /\ ViewersIdle
    /\ highlightedObject = null
    /\ overlayHidden = overlayInitiallyHidden
    /\ descriptionText = ""
    /\ threw = FALSE
    /\ leftOnce = {}

\* The user edits #chat-input.
TypeInput(value) ==
    /\ value # inputValue
    /\ inputValue' = value
    /\ effects' = <<>>
    /\ lastOp' = "input"
    /\ UNCHANGED <<objects, models, scene, pending, camera, rafPending,
                   messages, chatRequests, created, generateState,
                   viewerState>>

\* The submit handler up to its await of fetch: a blank message returns at
\* once; otherwise the user message and the placeholder are appended, the
\* input is emptied and the call is sent.
SubmitChat ==
    /\ LET message == trim(inputValue) IN
       IF message = ""
       THEN /\ lastOp' = "submitIgnored"
            /\ UNCHANGED <<messages, inputValue, chatRequests, created>>
       ELSE /\ Submitted(messages) < MaxSubmits
            /\ messages' = addMessageToChat(
                   addMessageToChat(messages, created + 1, message, "user"),
                   created + 2, ThinkingText, "bot")
            /\ created' = created + 2
            /\ inputValue' = ""
            /\ chatRequests' = chatRequests \cup
                   {[loadingMessage |-> created + 2, prompt |-> message,
                     stage |-> "fetch"]}
            /\ lastOp' = "submit"
    /\ effects' = <<>>
    /\ UNCHANGED <<objects, models, scene, pending, camera, rafPending,
                   generateState, viewerState>>

\* The await of fetch rejects: catch appends the error message.
ChatFetchRejected(req) ==
    /\ req \in chatRequests
    /\ req.stage = "fetch"
    /\ chatRequests' = chatRequests \ {req}
    /\ messages' = catch(messages, created + 1)
    /\ created' = created + 1
    /\ effects' = <<>>
    /\ lastOp' = "chatFailed"
    /\ UNCHANGED <<objects, models, scene, pending, camera, rafPending,
                   inputValue, generateState, viewerState>>

\* The await of fetch resolves: a response that is not ok throws, which
\* catch handles; otherwise the handler awaits response.json().
ChatFetchResolved(req, ok) ==
    /\ req \in chatRequests
    /\ req.stage = "fetch"
    /\ IF ok
       THEN /\ chatRequests' = (chatRequests \ {req}) \cup
                   {[req EXCEPT !.stage = "json"]}
            /\ lastOp' = "chatResolved"
            /\ UNCHANGED <<messages, created>>
       ELSE /\ chatRequests' = chatRequests \ {req}
            /\ messages' = catch(messages, created + 1)
            /\ created' = created + 1
            /\ lastOp' = "chatFailed"
    /\ effects' = <<>>
    /\ UNCHANGED <<objects, models, scene, pending, camera, rafPending,
                   inputValue, generateState, viewerState>>

\* The await of response.json() settles: with a parsed body the placeholder
\* is removed and the answer appended; a rejection goes to catch.
ChatJsonSettled(req, parsed) ==
    /\ req \in chatRequests
    /\ req.stage = "json"
    /\ chatRequests' = chatRequests \ {req}
    /\ IF parsed
       THEN /\ messages' = addMessageToChat(
                   remove(messages, req.loadingMessage),
                   created + 1, "data.response", "bot")
            /\ lastOp' = "chatAnswered"
       ELSE /\ messages' = catch(messages, created + 1)
            /\ lastOp' = "chatFailed"
    /\ created' = created + 1
    /\ effects' = <<>>
    /\ UNCHANGED <<objects, models, scene, pending, camera, rafPending,
                   inputValue, generateState, viewerState>>

NextChat ==
    \/ \E value \in ChatInputs : TypeInput(value)
    \/ SubmitChat
    \/ \E req \in chatRequests : ChatFetchRejected(req)
    \/ \E req \in chatRequests, ok \in BOOLEAN : ChatFetchResolved(req, ok)
    \/ \E req \in chatRequests, parsed \in BOOLEAN : ChatJsonSettled(req, parsed)

SpecChat == InitChat /\ [][NextChat]_vars

\* A promise the handler awaits settles: the fetch rejects or resolves, the
\* body parses or not.
ChatSettles ==
    \/ \E req \in chatRequests : ChatFetchRejected(req)
    \/ \E req \in chatRequests, ok \in BOOLEAN : ChatFetchResolved(req, ok)
    \/ \E req \in chatRequests, parsed \in BOOLEAN : ChatJsonSettled(req, parsed)

\* Every awaited promise eventually settles.
SpecChatLive == InitChat /\ [][NextChat]_vars /\ WF_vars(ChatSettles)

\* ---- the generate page with its chat ------------------------------------

\* The backend calls made so far by the two handlers of the page.
CallsMade == fetchCount + Submitted(messages)

\* The handlers of the generate page and of the chat added to it; the calls
\* of both together are bounded by MaxClicks.
NextPage ==
    \/ \E value \in Prompts : TypePrompt(value)
    \/ /\ GenerateClick(promptValue)
       /\ (lastOp' = "generateRefused" \/ CallsMade < MaxClicks)
    \/ \E req \in requests : FetchRejected(req)
    \/ \E req \in requests, ok \in BOOLEAN : FetchResolved(req, ok)
    \/ \E req \in requests, parsed \in BOOLEAN : JsonSettled(req, parsed)
    \/ \E load \in BagToSet(pending) : LoadCompleted(load)
    \/ \E load \in BagToSet(pending) : LoadFailed(load)
    \/ Render
    \/ \E value \in ChatInputs : TypeInput(value)
    \/ /\ SubmitChat
       /\ (lastOp' = "submitIgnored" \/ CallsMade < MaxClicks)
    \/ \E req \in chatRequests : ChatFetchRejected(req)
    \/ \E req \in chatRequests, ok \in BOOLEAN : ChatFetchResolved(req, ok)
    \/ \E req \in chatRequests, parsed \in BOOLEAN : ChatJsonSettled(req, parsed)

SpecPage == InitGen /\ [][NextPage]_vars

\* ---- Vocabulary of the properties ---------------------------------------
\* These are stated on the state alone and do not use the operators that
\* model the code's tests.

Created == Live(models)

\* The model carries the highlighted appearance on one of its meshes.
Highlighted(ms, o) ==
    /\ o \in Live(ms)
    /\ \E m \in DOMAIN ms[o].material : ms[o].material[m].emissive = "0x666666"

\* Every mesh of the model has the material recorded at registration.
NormalAppearance(ms, o) ==
    o \in Live(ms) =>
        \A m \in DOMAIN ms[o].material :
            ms[o].material[m] = ms[o].originalMaterials[m].material

OnAllowList(o) == models[o].type \in InteractiveTypes

\* Square of the Euclidean distance from the viewpoint cam to model o.
D(o, cam) == distanceTo(cam, models[o].position)

RadiusSq == INTERACTION_DISTANCE * INTERACTION_DISTANCE

Eligible(o, cam) == OnAllowList(o) /\ D(o, cam) < RadiusSq

\* The registry without the models that are off the allow-list.
AllowListed(objs) == SelectSeq(objs, OnAllowList)

\* Of the models of objs strictly within the radius of cam, the one at
\* minimum distance, the earliest in objs among equals; null if there is none.
NearestOf(objs, cam) ==
    LET E == {i \in 1..Len(objs) : D(objs[i], cam) < RadiusSq} IN
    IF E = {} THEN null
    ELSE objs[CHOOSE i \in E : \A j \in E :
                  \/ D(objs[i], cam) < D(objs[j], cam)
                  \/ (D(objs[i], cam) = D(objs[j], cam) /\ i <= j)]

LeaveOf(o) == IF o = null THEN <<>>
              ELSE <<Effect("restore", o), Effect("hide", o)>>

EnterOf(o) == IF o = null THEN <<>>
              ELSE <<Effect("highlight", o), Effect("text", o), Effect("show", o)>>

AfterTick == lastOp = "animate"

\* ---- C1 -----------------------------------------------------------------
\* C1: after any sequence of load completions, viewpoint moves, ticks and
\* clearScene calls, at most one model carries the highlighted appearance.
C1_AtMostOneHighlighted ==
    Cardinality({o \in Created : Highlighted(models, o)}) <= 1

\* A model is highlighted while another one, highlighted earlier, is not.
C1_Witness ==
    \E a \in leftOnce, b \in Created :
        a # b /\ Highlighted(models, b) /\ ~Highlighted(models, a)

\* ---- C2 -----------------------------------------------------------------
\* C2: immediately after a tick the highlighted model is an allow-listed
\* registered model strictly within INTERACTION_DISTANCE of the viewpoint
\* that no other such model is closer than, and nothing is highlighted
\* exactly when no allow-listed registered model is within that distance.
C2_HighlightedIsNearest ==
    AfterTick =>
        /\ (highlightedObject = null) <=>
               (\A o \in Range(objects) : ~Eligible(o, camera))
        /\ highlightedObject # null =>
               /\ highlightedObject \in Range(objects)
               /\ Eligible(highlightedObject, camera)
               /\ \A o \in Range(objects) :
                      Eligible(o, camera) =>
                          D(highlightedObject, camera) <= D(o, camera)

\* Two allow-listed models in range at different distances, the farther one
\* registered first, and the nearer one highlighted after the tick.
C2_Witness ==
    /\ AfterTick
    /\ \E i, j \in 1..Len(objects) :
          /\ i < j
          /\ Eligible(objects[i], camera) /\ Eligible(objects[j], camera)
          /\ D(objects[j], camera) < D(objects[i], camera)
          /\ highlightedObject = objects[j]

\* ---- C3 -----------------------------------------------------------------
\* C3: clearScene called while a model is highlighted leaves the registry
\* empty and the highlight state reset to null, and applies no leave effect;
\* the tick that follows it applies no leave effect either.
C3_ClearResetsWithoutLeave ==
    [][ /\ (lastOp' = "clearScene" /\ highlightedObject # null) =>
               /\ objects' = <<>>
               /\ highlightedObject' = null
               /\ effects' = <<>>
        /\ (lastOp = "clearScene" /\ lastOp' = "animate") =>
               \A o \in Created :
                   /\ Effect("restore", o) \notin Range(effects')
                   /\ Effect("hide", o) \notin Range(effects')
      ]_vars

\* ---- C4 -----------------------------------------------------------------
\* C4: a tick applies side effects only when the nearest allow-listed model
\* in range differs from the stored highlighted model; then it applies one
\* leave for the stored model (if any) followed by one enter for the selected
\* model (if any), with the matching change of appearance and overlay, and
\* stores the selected model.
C4_EdgeTriggered ==
    [][ lastOp' = "animate" =>
          LET sel == NearestOf(AllowListed(objects), camera')
              old == highlightedObject
          IN  /\ highlightedObject' = sel
              /\ effects' = IF sel = old THEN <<>>
                            ELSE LeaveOf(old) \o EnterOf(sel)
              /\ sel = old => /\ models' = models
                              /\ overlayHidden' = overlayHidden
                              /\ descriptionText' = descriptionText
              /\ (sel # old /\ old # null) => NormalAppearance(models', old)
              /\ (sel # old /\ sel # null) =>
                     Highlighted(models', sel) /\ ~overlayHidden'
              /\ (sel # old /\ sel = null) => overlayHidden'
      ]_vars

\* A tick has switched the focus directly from one model to another one.
C4_Witness ==
    /\ AfterTick
    /\ \E a, b \in Range(objects) :
          /\ a # b
          /\ effects = LeaveOf(a) \o EnterOf(b)
          /\ highlightedObject = b

\* ---- C5 -----------------------------------------------------------------
\* C5: a tick that directly follows a tick, with the viewpoint where it was,
\* applies no side effect and changes neither the highlight state nor any
\* appearance nor the overlay.
C5_TickIdempotent ==
    [][ (lastOp = "animate" /\ lastOp' = "animate" /\ camera' = camera) =>
          /\ effects' = <<>>
          /\ highlightedObject' = highlightedObject
          /\ models' = models
          /\ overlayHidden' = overlayHidden
          /\ descriptionText' = descriptionText
      ]_vars

\* A tick that found a model highlighted and applied nothing.
C5_Witness ==
    AfterTick /\ effects = <<>> /\ highlightedObject # null

\* ---- C6 -----------------------------------------------------------------
\* C6: of two allow-listed models at the same distance within range, a tick
\* never selects the one registered later; when they are the nearest ones
\* the earliest registered of them is the one highlighted.
C6_TieBreakFirstRegistered ==
    AfterTick =>
        \A i, j \in 1..Len(objects) :
            ( /\ i < j
              /\ Eligible(objects[i], camera) /\ Eligible(objects[j], camera)
              /\ D(objects[i], camera) = D(objects[j], camera) ) =>
                /\ highlightedObject # objects[j]
                /\ ( (\A k \in 1..Len(objects) :
                         Eligible(objects[k], camera) =>
                             /\ D(objects[i], camera) <= D(objects[k], camera)
                             /\ (D(objects[i], camera) = D(objects[k], camera)
                                    => i <= k))
                     => highlightedObject = objects[i] )

\* Two allow-listed models tie for the minimum distance and the first
\* registered one is highlighted.
C6_Witness ==
    /\ AfterTick
    /\ \E i, j \in 1..Len(objects) :
          /\ i < j
          /\ Eligible(objects[i], camera) /\ Eligible(objects[j], camera)
          /\ D(objects[i], camera) = D(objects[j], camera)
          /\ highlightedObject = objects[i]

\* ---- C7 -----------------------------------------------------------------
\* C7: a model whose distance equals INTERACTION_DISTANCE is out of range:
\* after a tick it is not the highlighted model, and the highlighted model
\* is at a distance strictly below the threshold.
C7_RadiusExclusive ==
    AfterTick =>
        /\ \A o \in Range(objects) :
               D(o, camera) = RadiusSq =>
                   highlightedObject # o /\ ~Highlighted(models, o)
        /\ highlightedObject # null =>
               D(highlightedObject, camera) < RadiusSq

\* The only allow-listed model is exactly at the threshold and the tick
\* highlighted nothing.
C7_Witness ==
    /\ AfterTick
    /\ highlightedObject = null
    /\ \E o \in Range(objects) : OnAllowList(o) /\ D(o, camera) = RadiusSq

\* ---- C8 -----------------------------------------------------------------
\* C8: a model whose type tag is off the allow-list is never the highlighted
\* model and never carries the highlighted appearance, and after a tick the
\* highlighted model is the one the registry without such models gives.
C8_AllowListOnly ==
    /\ \A o \in Created :
           ~OnAllowList(o) =>
               highlightedObject # o /\ ~Highlighted(models, o)
    /\ AfterTick =>
           highlightedObject = NearestOf(AllowListed(objects), camera)

\* A model off the allow-list sits at the viewpoint, nearer than the
\* allow-listed model that the tick highlighted.
C8_Witness ==
    /\ AfterTick
    /\ highlightedObject # null
    /\ \E n \in Range(objects) :
          /\ ~OnAllowList(n)
          /\ D(n, camera) = 0
          /\ D(highlightedObject, camera) > 0

\* ---- C9 -----------------------------------------------------------------
\* C9: a model that was highlighted and left is entered afresh by the tick
\* that finds it nearest in range again (highlighted appearance, overlay
\* shown, state set to it), and is left afresh by a later tick that no longer
\* selects it.
C9_NotSticky ==
    [][ lastOp' = "animate" =>
          \A a \in leftOnce :
            LET sel == NearestOf(AllowListed(objects), camera') IN
            /\ (~Highlighted(models, a) /\ sel = a) =>
                   /\ Len(effects') >= 3
                   /\ SubSeq(effects', Len(effects') - 2, Len(effects')) = EnterOf(a)
                   /\ Highlighted(models', a)
                   /\ ~overlayHidden'
                   /\ highlightedObject' = a
            /\ (Highlighted(models, a) /\ sel # a) =>
                   /\ Len(effects') >= 2
                   /\ SubSeq(effects', 1, 2) = LeaveOf(a)
                   /\ NormalAppearance(models', a)
                   /\ highlightedObject' # a
      ]_vars

\* A model that had been left is highlighted again.
C9_Witness ==
    /\ AfterTick
    /\ highlightedObject \in leftOnce
    /\ Highlighted(models, highlightedObject)
    /\ EnterOf(highlightedObject) = effects

\* ---- C10 ----------------------------------------------------------------
\* C10: when a tick newly highlights a model whose type tag has no entry in
\* objectDescriptions, the enter completes: no exception, the overlay is
\* shown and the highlight state is that model.
C10_MissingDescription ==
    AfterTick =>
        \A o \in Created :
            ( /\ Effect("highlight", o) \in Range(effects)
              /\ models[o].type \notin DescribedTypes ) =>
                /\ ~threw
                /\ ~overlayHidden
                /\ highlightedObject = o
                /\ Effect("show", o) \in Range(effects)

\* A 'coffee_table' has just been highlighted.
C10_Witness ==
    /\ AfterTick
    /\ highlightedObject # null
    /\ models[highlightedObject].type = "coffee_table"
    /\ Effect("highlight", highlightedObject) \in Range(effects)
    /\ ~overlayHidden

\* ---- C11 ----------------------------------------------------------------
\* C11: the failure callback of a load registers nothing: the registry, the
\* scene, the models and the highlight state (stored model, overlay, text)
\* are what they were before it, and it applies no side effect.
C11_FailedLoadRegistersNothing ==
    [][ lastOp' = "onError" =>
          /\ objects' = objects
          /\ scene' = scene
          /\ models' = models
          /\ highlightedObject' = highlightedObject
          /\ overlayHidden' = overlayHidden
          /\ descriptionText' = descriptionText
          /\ effects' = <<>>
      ]_vars

\* A load has just failed while another one had succeeded and its model is
\* highlighted.
C11_Witness ==
    /\ lastOp = "onError"
    /\ highlightedObject # null
    /\ highlightedObject \in Range(objects)

\* ---- C12 ----------------------------------------------------------------
\* C12: every model in the registry, in every state a tick can start from,
\* has its type tag and, for each of its meshes, the recorded original
\* material.
C12_RegisteredModelsComplete ==
    \A o \in Range(objects) :
        /\ models[o].type \in Folders
        /\ DOMAIN models[o].material = 1..MeshCount(models[o].type)
        /\ DOMAIN models[o].originalMaterials = DOMAIN models[o].material
        /\ DOMAIN models[o].originalMaterial = DOMAIN models[o].material
        /\ \A m \in DOMAIN models[o].material :
               /\ models[o].originalMaterials[m] =
                      [mesh |-> m, material |-> AssetMaterial(m)]
               /\ models[o].originalMaterial[m] = AssetMaterial(m)

\* A tick has run between two load completions: one model is registered
\* while another load is still in flight.
C12_Witness ==
    /\ AfterTick
    /\ objects # <<>>
    /\ BagCardinality(pending) >= 1

\* ---- C13 ----------------------------------------------------------------
\* C13: at most one frame callback is pending at any time, a frame consumes
\* the pending callback and requests exactly one, and the effects of a tick
\* appear only in a step that is a frame.
C13_TicksSerialized ==
    [][ /\ rafPending <= 1
        /\ rafPending' <= 1
        /\ lastOp' = "animate" => (rafPending = 1 /\ rafPending' = 1)
        /\ ( \/ effects' # <<>>
             \/ highlightedObject' # highlightedObject
             \/ overlayHidden' # overlayHidden
             \/ camera' # camera ) => lastOp' = "animate"
      ]_vars

\* A frame has run a tick that changed the focus, and the next frame is
\* requested.
C13_Witness ==
    AfterTick /\ effects # <<>> /\ rafPending = 1

\* ---- C14 ----------------------------------------------------------------
\* C14: the render loop never stops: whatever clicks, failed calls and
\* failed loads happen in between, a frame runs again and requests the
\* next one.
C14_LoopNeverStops == []<>(lastOp = "animate" /\ rafPending >= 1)

\* A frame ran after the load started by a response had failed, with
\* nothing registered, and the next frame is requested.
C14_Witness ==
    /\ lastOp = "animate"
    /\ rafPending >= 1
    /\ lastArrived # null
    /\ requests = {}
    /\ pending = EmptyBag
    /\ objects = <<>>

\* ---- C19 ----------------------------------------------------------------
\* C19: every registered model other than the highlighted one has, on each
\* of its meshes, the material recorded at registration, which is the
\* material the asset came with.
C19_LeaveRestoresAppearance ==
    \A o \in Range(objects) :
        o # highlightedObject =>
            \A m \in DOMAIN models[o].material :
                /\ models[o].material[m] = models[o].originalMaterials[m].material
                /\ models[o].material[m] = AssetMaterial(m)

\* A registered model with two meshes was highlighted, has been left and is
\* not the highlighted one.
C19_Witness ==
    \E o \in leftOnce \cap Range(objects) :
        /\ o # highlightedObject
        /\ Cardinality(DOMAIN models[o].material) = 2

\* ---- C20 ----------------------------------------------------------------
\* C20: after every tick the overlay is visible exactly when a model is
\* highlighted, and then its text is the description of that model's type
\* tag (empty when the table has none).
DescriptionShown(type) ==
    IF type \in DescribedTypes THEN objectDescriptions(type) ELSE ""

C20_OverlayConsistent ==
    AfterTick =>
        /\ ~overlayHidden <=> highlightedObject # null
        /\ highlightedObject # null =>
               descriptionText = DescriptionShown(models[highlightedObject].type)

\* A tick switched directly between two models of different types and the
\* overlay shows the text of the new one.
C20_Witness ==
    /\ AfterTick
    /\ \E a, b \in Range(objects) :
          /\ models[a].type # models[b].type
          /\ effects = LeaveOf(a) \o EnterOf(b)
          /\ highlightedObject = b
          /\ ~overlayHidden
          /\ descriptionText = DescriptionShown(models[b].type)

\* ---- C15 ----------------------------------------------------------------
\* C15: the registry is exactly the set of loaded objects attached to the
\* scene, before and after every step; an object enters it only when its
\* load completes, and is attached in the same step; objects leave it only
\* when an applied response clears the scene, which empties the registry and
\* detaches every object it held.
C15_RegistryLifecycle ==
    [][ /\ Range(objects) = scene
        /\ Range(objects') = scene'
        /\ Len(objects') = Cardinality(scene')
        /\ (Range(objects') \ Range(objects) # {}) =>
               /\ lastOp' = "onLoad"
               /\ \E o \in scene' \ scene : objects' = Append(objects, o)
        /\ (Range(objects) \ Range(objects') # {}) =>
               /\ lastOp' = "generateSucceeded"
               /\ objects' = <<>>
               /\ scene' \cap Range(objects) = {}
        /\ lastOp' = "generateSucceeded" => (objects' = <<>> /\ scene' = {})
      ]_vars

\* A response has been applied while an object was registered: the registry
\* and the scene are empty and a load is in flight.
C15_Witness ==
    /\ lastOp = "generateSucceeded"
    /\ Len(models) >= 1
    /\ objects = <<>>
    /\ scene = {}
    /\ BagCardinality(pending) >= 1

\* ---- C16 ----------------------------------------------------------------
\* C16: once every call has been answered and every load has completed, the
\* scene and the registry hold only the object of the response that arrived
\* last.
C16_LastResponseWins ==
    (requests = {} /\ pending = EmptyBag /\ lastArrived # null) =>
        \A o \in Range(objects) \cup scene : models[o].url = lastArrived

\* ---- C17 ----------------------------------------------------------------
\* C17: a call that fails (the fetch rejects, the response is not ok, or its
\* body does not parse) is caught in the handler, which alerts exactly once,
\* sends nothing again and leaves the scene, the registry and the loads in
\* flight as they were.
C17_FailedGenerateLeavesScene ==
    [][ lastOp' = "generateFailed" =>
          /\ effects' = <<Effect("alert", null)>>
          /\ fetchCount' = fetchCount
          /\ requests' \subseteq requests
          /\ Cardinality(requests') = Cardinality(requests) - 1
          /\ objects' = objects
          /\ scene' = scene
          /\ models' = models
          /\ pending' = pending
      ]_vars

\* A call has just failed on a page that shows an object loaded earlier.
C17_Witness ==
    /\ lastOp = "generateFailed"
    /\ objects # <<>>
    /\ Range(objects) = scene
    /\ requests = {}

\* ---- C18 ----------------------------------------------------------------
\* C18: a chat call that fails (the fetch rejects, the response is not ok,
\* or its body does not parse) is caught in the handler: exactly one bot
\* message with the error text is appended after the messages already
\* shown, nothing is sent again, and the user's message of that call is
\* still in the conversation.
C18_FailedChatAppendsOneError ==
    [][ lastOp' = "chatFailed" =>
          /\ Len(messages') = Len(messages) + 1
          /\ SubSeq(messages', 1, Len(messages)) = messages
          /\ messages'[Len(messages')].text = ErrorText
          /\ messages'[Len(messages')].type = "bot"
          /\ chatRequests' \subseteq chatRequests
          /\ Cardinality(chatRequests') = Cardinality(chatRequests) - 1
          /\ \A req \in chatRequests \ chatRequests' :
                 \E i \in 1..Len(messages') :
                     /\ messages'[i].type = "user"
                     /\ messages'[i].text = req.prompt
      ]_vars

\* A call has just failed while another call is still in flight: the
\* conversation starts with the user's message and ends with the error.
C18_Witness ==
    /\ lastOp = "chatFailed"
    /\ chatRequests # {}
    /\ messages[1].type = "user"
    /\ messages[Len(messages)].text = ErrorText
    /\ Submitted(messages) = 2

\* ---- C23 ----------------------------------------------------------------
\* C23: a click on Generate with an empty or blank prompt only alerts: no
\* call is sent, the indicator, the scene, the registry and the loads stay
\* as they were.  A chat submit with an empty or blank input sends no call
\* and appends no message.
Blank(value) == value \in {"", " "}

C23_BlankInputChangesNothing ==
    [][ /\ (lastOp' \in {"generateClick", "generateRefused"}
               /\ Blank(promptValue)) =>
              /\ effects' = <<Effect("alert", null)>>
              /\ requests' = requests
              /\ fetchCount' = fetchCount
              /\ loading' = loading
              /\ objects' = objects
              /\ scene' = scene
              /\ models' = models
              /\ pending' = pending
        /\ (lastOp' \in {"submit", "submitIgnored"} /\ Blank(inputValue)) =>
              /\ chatRequests' = chatRequests
              /\ messages' = messages
              /\ created' = created
              /\ effects' = <<>>
      ]_vars

\* Generate has just been clicked with a blank prompt on a page that shows
\* an object, while the chat, whose blank input was submitted before, still
\* shows no message.
C23_Witness ==
    /\ lastOp = "generateRefused"
    /\ promptValue = " "
    /\ inputValue = " "
    /\ messages = <<>>
    /\ objects # <<>>
    /\ loading = "none"

\* ---- C24 ----------------------------------------------------------------
\* C24: the loading indicator is displayed exactly while at least one call
\* to /generate_scene has not finished.
C24_LoadingTracksRequests == (loading = "block") <=> (requests # {})

\* ---- C25 ----------------------------------------------------------------
\* C25: every 'Thinking...' placeholder shown for a submission is eventually
\* removed from the chat, and once no call is in flight the chat holds
\* exactly one bot message other than a placeholder (the reply or the error
\* text) per user message.
Elements == 1..(3 * MaxSubmits)

Placeholder(el) ==
    \E i \in 1..Len(messages) :
        messages[i].el = el /\ messages[i].text = ThinkingText

Replies(msgs) ==
    Len(SelectSeq(msgs, LAMBDA e : e.type = "bot" /\ e.text # ThinkingText))

C25_PlaceholderRemoved ==
    /\ \A el \in Elements : Placeholder(el) ~> ~Placeholder(el)
    /\ [](chatRequests = {} => Replies(messages) = Submitted(messages))

\* ---- C26 ----------------------------------------------------------------
\* C26: each flag is true exactly when one of the two keys bound to it is
\* down, and an event of a key that is not bound changes no flag.
BoundKeys ==
    {"ArrowUp", "KeyW", "ArrowDown", "KeyS", "ArrowLeft", "KeyA",
     "ArrowRight", "KeyD"}

C26_FlagsMirrorKeys ==
    /\ [](/\ moveForward  <=> held \cap {"ArrowUp", "KeyW"} # {}
          /\ moveBackward <=> held \cap {"ArrowDown", "KeyS"} # {}
          /\ rotateLeft   <=> held \cap {"ArrowLeft", "KeyA"} # {}
          /\ rotateRight  <=> held \cap {"ArrowRight", "KeyD"} # {})
    /\ [][ ((held' \ held) \cup (held \ held')) \cap BoundKeys = {} =>
               UNCHANGED <<moveForward, moveBackward, rotateLeft, rotateRight>>
         ]_vars

\* ---- C21 ----------------------------------------------------------------
\* C21: over the same positions and the same camera moves, with every model
\* of the room interactive, the garden's tick and the room's tick select
\* the same object, the nearest strictly within the interaction distance,
\* and apply the same sequence of leave and enter effects.
C21_GardenMatchesRoom ==
    AfterTick =>
        /\ highlightedSphere = highlightedObject
        /\ highlightedObject = NearestOf(objects, camera)
        /\ sphereEffects = effects
        /\ sphereOverlayHidden = overlayHidden
        /\ \A i \in 1..Len(spheres) :
               (spheres[i].material = spheres[i].originalMaterial)
                   <=> NormalAppearance(models, i)

\* A tick has switched both pages directly from one object to another.
C21_Witness ==
    /\ AfterTick
    /\ \E a, b \in 1..Len(spheres) :
          /\ a # b
          /\ sphereEffects = LeaveOf(a) \o EnterOf(b)
          /\ effects = LeaveOf(a) \o EnterOf(b)
          /\ highlightedSphere = b

\* ---- C22 ----------------------------------------------------------------
\* C22: a click while the controls are not locked requests the lock and
\* leaves the tooltip and the spheres as they were; a click while locked
\* shows the tooltip with the content of the nearest sphere on the centre
\* ray, or hides it when the ray meets no sphere; a sphere whose emissive
\* intensity was raised eventually has the normal intensity again.
C22_ClickAndTooltip ==
    /\ [][ lastOp' = "click" =>
             /\ ~isLocked =>
                   /\ lockRequested'
                   /\ tooltipDisplay' = tooltipDisplay
                   /\ tooltipText' = tooltipText
                   /\ emissiveIntensity' = emissiveIntensity
                   /\ isLocked' = isLocked
             /\ (isLocked /\ aim # <<>>) =>
                   /\ tooltipDisplay' = "block"
                   /\ tooltipText' = <<"story", aim[1]>>
                   /\ emissiveIntensity'[aim[1]] = 8
             /\ (isLocked /\ aim = <<>>) =>
                   /\ tooltipDisplay' = "none"
                   /\ tooltipText' = tooltipText
         ]_vars
    /\ \A s \in Stories :
           (emissiveIntensity[s] # 2) ~> (emissiveIntensity[s] = 2)

\* A locked click on a ray that meets two spheres has shown the content of
\* the nearer one, whose intensity is raised, after an earlier click had
\* raised the other.
C22_Witness ==
    /\ lastOp = "click"
    /\ isLocked
    /\ Len(aim) = 2
    /\ tooltipDisplay = "block"
    /\ tooltipText = <<"story", aim[1]>>
    /\ timers[aim[1]] >= 1
    /\ timers[aim[2]] >= 1

====
